---- MODULE Spec2Model ----
(***************************************************************************)
(* Verification model of acdop100/faceswap:                                *)
(*   - lib/gpu_stats/_base.py   (GPU stats, process-wide exclusion list)   *)
(*   - tools/preview/preview.py (sample index pools, patch thread, GUI)    *)
(*   - tools/effmpeg/cli.py     (the --transpose argument)                 *)
(*   - lib/model/loss/perceptual_loss_plaid.py (the smallest MS-SSIM size) *)
(* The specifications share the variables: SpecGpu and SpecActive for the  *)
(* GPU stats, SpecSamples for the construction of the samples, SpecPreview *)
(* for the running preview tool (SpecPreviewFair and SpecPreviewLive with  *)
(* scheduled threads, SpecPredictEOF with a predictor that may end early,  *)
(* SpecShutdown with a shutdown request, SpecDisplay with the canvas),     *)
(* SpecConfig for the configuration frame, SpecTranspose and SpecSmallest. *)
(* Each leaves the other parts untouched.                                  *)
(***************************************************************************)
EXTENDS Integers, Sequences, FiniteSets, TLC

(***************************************************************************)
(* Bounds of the model                                                     *)
(***************************************************************************)
MaxDevices == 2
MaxMem == 1
MaxExclLen == 2
MaxEnvLen == 3
MaxEnvLenGpu == 1
MaxConstructions == 2
MaxFiles == 23
MaxSampleSize == 5
NumOptions == 2
MaxOptValue == 1
MaxEvents == 2
MaxImSize == 40
MaxScales == 6

(***************************************************************************)
(* Generic helpers                                                         *)
(***************************************************************************)
Range(s) == {s[k] : k \in 1..Len(s)}

SeqsUpTo(S, n) == UNION {[1..k -> S] : k \in 0..n}

Min2(a, b) == IF a < b THEN a ELSE b

(***************************************************************************)
(* lib/gpu_stats/_base.py                                                  *)
(***************************************************************************)
VARIABLES
    backend,        \* value of get_backend()
    hw_count,       \* number of devices the driver enumerates
    hw_free,        \* live free memory per device index, or QueryError
    env,            \* os.environ CUDA_VISIBLE_DEVICES
    excl,           \* module global _EXCLUDE_DEVICES
    stats,          \* the most recently constructed _GPUStats object
    result,         \* return value of the last get_card_most_free call
    warnings,       \* number of "No GPU detected" records emitted
    last,           \* the operation that produced the current state
    hw_at_init,     \* history: hw_free at the time stats was constructed
    nqual,          \* history: constructions (backend # cpu) with no active device
    nqual_log       \* history: those of them constructed with log=True

gpuVars == <<backend, hw_count, hw_free, env, excl, stats, result, warnings,
             last, hw_at_init, nqual, nqual_log>>

\* tools/preview/preview.py: class Samples
VARIABLES
    no_files,       \* len(self._filelist): frames that have faces
    sample_size,    \* self._sample_size
    indices,        \* self._indices: the index pools
    samples_pc,           \* position of Samples.__init__
    file_version,         \* the schema version of the alignments file on disk
    have_file,            \* Alignments.have_alignments_file
    alignments,           \* self._alignments: the loaded Alignments object
    samples_err           \* the error that ended Samples.__init__, with its message

samplesVars == <<no_files, sample_size, indices, samples_pc, file_version,
                 have_file, alignments, samples_err>>

\* tools/preview/preview.py: Preview, Samples.generate, Patch, ConfigTools
VARIABLES
    trigger,              \* Patch._trigger: the threading.Event that starts a patch run
    shutdown,             \* Patch._shutdown: the threading.Event that ends the thread
    lock,                 \* the threading.Lock shared by Samples and Patch: its holder
    patch_pc,             \* position of the patch thread in Patch._process
    wait_result,          \* the local trigger = trigger_event.wait(1)
    gui_pc,               \* position of the GUI thread in _refresh or generate
    gui_idx,              \* the item update_config is at
    tk_vars,              \* ConfigTools.tk_vars: the option values shown in the GUI
    cli_vars,             \* ActionFrame._tk_vars: the command line choices shown
    config,               \* Config.config: the stored text of every option
    converter_arguments,  \* Patch.converter_arguments
    conv_args,            \* Converter.cli_arguments
    conv_config,          \* the option values the converter was reinitialised with
    busy,                 \* tk_vars["busy"]
    refresh,              \* tk_vars["refresh"]
    input_images,         \* Samples._input_images: the number of the loaded sample set
    pred_set,             \* the sample set of the list bound to _predicted_images
    predicted_images,     \* Samples._predicted_images
    feed_set,             \* the list the feeding loop iterates over
    feed_idx,             \* items the feeding loop has put
    patch_queue_in,       \* the queue "preview_patch_in"
    swapped,              \* the local swapped of Patch._process
    display_source,       \* FacesDisplay.source
    update_source,        \* FacesDisplay.update_source
    display_destination,  \* FacesDisplay.destination
    events,               \* history: GUI events so far
    wrote,                \* history: the refresh under way has written an option
    sets_since_clear,     \* history: trigger.set() calls since the last clear (up to 2)
    sets_in_flight,       \* history: those made while a run was in flight (up to 2)
    runs_since_set,       \* history: runs begun since the last trigger.set()
    run_sets,             \* history: sets_since_clear when the last run began
    run_flight,           \* history: sets_in_flight when the last run began
    shutdown_at,          \* history: where the patch thread was when shutdown was set
    selection,            \* the frames picked by _random_choice for _input_images
    ini,                  \* the saved configuration file: the text of each option
    config_dicts,         \* ConfigTools._config_dicts: the saved value of each option
    last_save,            \* history: the count and the argument of the save_config calls
    retired,              \* the length of each predicted list when _predict replaced it
    by_refresh,           \* history: a run requested by a refresh is pending / in progress
    faces                 \* FacesDisplay._faces: the matrices held and the faces cropped last

previewVars == <<trigger, shutdown, lock, patch_pc, wait_result, gui_pc,
                 gui_idx, tk_vars, cli_vars, config, converter_arguments,
                 conv_args, conv_config, busy, refresh, input_images,
                 pred_set, predicted_images, feed_set, feed_idx,
                 patch_queue_in, swapped, display_source, update_source,
                 display_destination, events, wrote, sets_since_clear,
                 sets_in_flight, runs_since_set, run_sets, run_flight,
                 shutdown_at, selection, ini, config_dicts, last_save,
                 retired, by_refresh, faces>>

\* tools/effmpeg/cli.py: EffmpegArgs.__parse_transpose
VARIABLES
    tr_value,       \* value: the text given to --transpose
    tr_index,       \* index
    tr_i,           \* i of the for loop
    tr_result,      \* the option returned
    tr_pc           \* position in __parse_transpose, or the exception raised

transposeVars == <<tr_value, tr_index, tr_i, tr_result, tr_pc>>

\* lib/model/loss/perceptual_loss_plaid.py: MSSIMLoss._get_smallest_size
VARIABLES
    ss_size0,       \* size of the outermost call
    ss_idx0,        \* idx of the outermost call
    ss_size,        \* size in the innermost active call
    ss_idx,         \* idx in the innermost active call
    ss_depth,       \* recursive calls that have not returned yet
    ss_halvings,    \* history: the number of size // 2 computed
    ss_retval,      \* the value returned by the call that returned last
    ss_pc           \* "call": in a call; "return": unwinding; "done"

smallestVars == <<ss_size0, ss_idx0, ss_size, ss_idx, ss_depth, ss_halvings,
                  ss_retval, ss_pc>>

vars == <<gpuVars, samplesVars, previewVars, transposeVars, smallestVars>>

notGpu == <<samplesVars, previewVars, transposeVars, smallestVars>>

notSamples == <<gpuVars, previewVars, transposeVars, smallestVars>>

notPreview == <<gpuVars, samplesVars, transposeVars, smallestVars>>

notTranspose == <<gpuVars, samplesVars, previewVars, smallestVars>>

notSmallest == <<gpuVars, samplesVars, previewVars, transposeVars>>

\* BiggestGPUInfo returned when no GPU is active: free and total of 2048 MB
FallbackMem == 2048

\* outcome of a per-device query that raises
QueryError == -1

Devices == 0..(MaxDevices - 1)

DigitChars == <<"0", "1", "2", "3", "4", "5", "6", "7", "8", "9">>

DigitVal(c) == (CHOOSE k \in 1..10 : DigitChars[k] = c) - 1

IsDigit(c) == \E k \in 1..10 : DigitChars[k] = c

\* str.split(",")
RECURSIVE SplitComma(_)
SplitComma(s) ==
    IF \A k \in 1..Len(s) : s[k] # ","
    THEN <<s>>
    ELSE LET p == CHOOSE k \in 1..Len(s) :
                      s[k] = "," /\ \A j \in 1..(k - 1) : s[j] # ","
         IN  <<SubSeq(s, 1, p - 1)>> \o SplitComma(SubSeq(s, p + 1, Len(s)))

\* int(token) for a token of decimal digits
RECURSIVE IntOf(_)
IntOf(tok) ==
    IF Len(tok) = 0 THEN 0
    ELSE IntOf(SubSeq(tok, 1, Len(tok) - 1)) * 10 + DigitVal(tok[Len(tok)])

\* int(token) raises ValueError on an empty or non-numeric token
IntRaises(tok) == Len(tok) = 0 \/ \E k \in 1..Len(tok) : ~IsDigit(tok[k])

\* os.environ.get("CUDA_VISIBLE_DEVICES"): unset (None) or a string
EnvUnset == [isset |-> FALSE, val |-> <<>>]

EnvChars == {DigitChars[k + 1] : k \in Devices} \cup {","}

\* the values of the variable: unset, empty, or a comma-separated list of
\* integers (every token parses)
EnvValues(n) ==
    {EnvUnset} \cup
    {[isset |-> TRUE, val |-> s] : s \in
        {t \in SeqsUpTo(EnvChars, n) :
            t = <<>> \/ \A k \in 1..Len(SplitComma(t)) : ~IntRaises(SplitComma(t)[k])}}

\* [int(i) for i in env_devices.split(",")]
NewDevices(s) == [k \in 1..Len(SplitComma(s)) |-> IntOf(SplitComma(s)[k])]

\* list(range(n))
RangeList(n) == [k \in 1..n |-> k - 1]

\* [x for x in s if x not in t]
NotIn(s, t) == SelectSeq(s, LAMBDA x : x \notin Range(t))

\* [x for x in s if x in t]
OnlyIn(s, t) == SelectSeq(s, LAMBDA x : x \in Range(t))

\* mutant: the visibility list is added to the devices instead of filtering them
get_active_devices_union(device_count, exclude, env_devices) ==
    LET devices == NotIn(RangeList(device_count), exclude)
    IN  IF env_devices.isset /\ env_devices.val # <<>>
        THEN SelectSeq(RangeList(device_count),
                       LAMBDA x : x \in Range(devices)
                                  \/ x \in Range(NewDevices(env_devices.val)))
        ELSE devices

\* _GPUStats._get_active_devices
get_active_devices(device_count, exclude, env_devices) ==
    LET devices == NotIn(RangeList(device_count), exclude)
    IN  IF env_devices.isset /\ env_devices.val # <<>>
        THEN OnlyIn(devices, NewDevices(env_devices.val))
        ELSE devices

\* _get_vram of the backend: total memory of each connected device
get_vram(device_count) == [k \in 1..device_count |-> MaxMem + k]

\* _get_device_names of the backend: one name per connected device
get_device_names(device_count) == [k \in 1..device_count |-> k - 1]

\* _get_free_vram of the backend: a device whose query raises is reported
\* with zero free memory
get_free_vram(device_count, free) ==
    [k \in 1..device_count |->
        IF free[k - 1] = QueryError THEN 0 ELSE free[k - 1]]

\* mutant: records are emitted whether or not the object holds a logger
log_always(logger, level) == IF level = "warning" THEN 1 ELSE 0

\* _GPUStats._log: number of warning records emitted by one call
log(logger, level) ==
    IF logger = FALSE THEN 0
    ELSE IF level = "warning" THEN 1 ELSE 0

NoStats == [built |-> FALSE]

\* mutant: the total memory is stored in place of the free memory
init_stats_swapped(logflag, device_count, exclude, env_devices, free) ==
    [built          |-> TRUE,
     logger         |-> logflag,
     device_count   |-> device_count,
     active_devices |-> get_active_devices(device_count, exclude, env_devices),
     device_names   |-> get_device_names(device_count),
     vram           |-> get_vram(device_count),
     vram_free      |-> get_vram(device_count)]

\* _GPUStats.__init__: the attributes of the constructed object
init_stats(logflag, device_count, exclude, env_devices, free) ==
    [built          |-> TRUE,
     logger         |-> logflag,
     device_count   |-> device_count,
     active_devices |-> get_active_devices(device_count, exclude, env_devices),
     device_names   |-> get_device_names(device_count),
     vram           |-> get_vram(device_count),
     vram_free      |-> get_free_vram(device_count, free)]

\* max(list)
RECURSIVE MaxOf(_)
MaxOf(s) ==
    IF Len(s) = 1 THEN s[1]
    ELSE LET m == MaxOf(Tail(s)) IN IF s[1] >= m THEN s[1] ELSE m

\* list.index(value): position (from 0) of the first occurrence
IndexOf(s, v) == (CHOOSE k \in 1..Len(s) :
                     s[k] = v /\ \A j \in 1..(k - 1) : s[j] # v) - 1

NoDevice == [card_id |-> -1, device |-> -1,
             free |-> FallbackMem, total |-> FallbackMem]

\* mutant: the choice is made among all connected devices, active or not
get_card_most_free_alldev(st) ==
    IF st.device_count = 0
    THEN NoDevice
    ELSE LET free_vram == st.vram_free
             vram_free == MaxOf(free_vram)
             card_id == IndexOf(free_vram, vram_free)
         IN  [card_id |-> card_id,
              device  |-> st.device_names[card_id + 1],
              free    |-> vram_free,
              total   |-> st.vram[card_id + 1]]

\* mutant: the free memory is queried again at the time of the call
get_card_most_free_live(st) ==
    IF Len(st.active_devices) = 0
    THEN NoDevice
    ELSE LET free_vram == [k \in 1..Len(st.active_devices) |->
                              get_free_vram(st.device_count, hw_free)[
                                  st.active_devices[k] + 1]]
             vram_free == MaxOf(free_vram)
             card_id == st.active_devices[IndexOf(free_vram, vram_free) + 1]
         IN  [card_id |-> card_id,
              device  |-> st.device_names[card_id + 1],
              free    |-> vram_free,
              total   |-> st.vram[card_id + 1]]

\* mutant: the last of several devices with the same free memory is chosen
get_card_most_free_last(st) ==
    IF Len(st.active_devices) = 0
    THEN NoDevice
    ELSE LET free_vram == [k \in 1..Len(st.active_devices) |->
                              st.vram_free[st.active_devices[k] + 1]]
             vram_free == MaxOf(free_vram)
             card_id == st.active_devices[
                            CHOOSE k \in 1..Len(free_vram) :
                                free_vram[k] = vram_free
                                /\ \A j \in (k + 1)..Len(free_vram) :
                                       free_vram[j] # vram_free]
         IN  [card_id |-> card_id,
              device  |-> st.device_names[card_id + 1],
              free    |-> vram_free,
              total   |-> st.vram[card_id + 1]]

\* _GPUStats.get_card_most_free
get_card_most_free(st) ==
    IF Len(st.active_devices) = 0
    THEN NoDevice
    ELSE LET free_vram == [k \in 1..Len(st.active_devices) |->
                              st.vram_free[st.active_devices[k] + 1]]
             vram_free == MaxOf(free_vram)
             card_id == st.active_devices[IndexOf(free_vram, vram_free) + 1]
         IN  [card_id |-> card_id,
              device  |-> st.device_names[card_id + 1],
              free    |-> vram_free,
              total   |-> st.vram[card_id + 1]]

NoResult == [card_id |-> -2, device |-> -2, free |-> 0, total |-> 0]

InitCommonGpu ==
    /\ hw_free = [i \in Devices |-> 0]
    /\ excl = <<>>
    /\ stats = NoStats
    /\ result = NoResult
    /\ warnings = 0
    /\ last = "start"
    /\ hw_at_init = [i \in Devices |-> 0]
    /\ nqual = 0
    /\ nqual_log = 0

\* the GPU part at rest
IdleGpu ==
    /\ backend = "cpu"
    /\ hw_count = 0
    /\ env = EnvUnset
    /\ InitCommonGpu

\* the free memory of a device changes, or its query starts to fail
HwChange ==
    /\ \E i \in Devices, v \in (0..MaxMem) \cup {QueryError} :
          /\ i < hw_count
          /\ hw_free[i] # v
          /\ hw_free' = [hw_free EXCEPT ![i] = v]
    /\ last' = "hw"
    /\ UNCHANGED <<backend, hw_count, env, excl, stats, result, warnings,
                   hw_at_init, nqual, nqual_log>>
    /\ UNCHANGED notGpu

\* mutant: a later call replaces the stored list
exclude_devices_replace(current, devices) ==
    IF devices = <<>> THEN current ELSE devices

\* set_exclude_devices: the list after the call
exclude_devices(current, devices) ==
    IF devices = <<>> THEN current ELSE current \o devices

SetExcludeDevices ==
    /\ \E devices \in SeqsUpTo(0..MaxDevices, MaxExclLen) :
          /\ Len(excl) + Len(devices) <= MaxExclLen
          /\ excl' = exclude_devices(excl, devices)
    /\ last' = "exclude"
    /\ UNCHANGED <<backend, hw_count, hw_free, env, stats, result, warnings,
                   hw_at_init, nqual, nqual_log>>
    /\ UNCHANGED notGpu

\* GPUStats(log=logflag)
Construct ==
    /\ nqual < MaxConstructions
    /\ \E logflag \in BOOLEAN :
          LET st == init_stats(logflag, hw_count, excl, env, hw_free)
              noGpu == backend # "cpu" /\ Len(st.active_devices) = 0
          IN  /\ stats' = st
              /\ warnings' = warnings
                             + (IF noGpu THEN log(logflag, "warning") ELSE 0)
              /\ nqual' = nqual + (IF noGpu THEN 1 ELSE 0)
              /\ nqual_log' = nqual_log + (IF noGpu /\ logflag THEN 1 ELSE 0)
    /\ hw_at_init' = hw_free
    /\ last' = "construct"
    /\ UNCHANGED <<backend, hw_count, hw_free, env, excl, result>>
    /\ UNCHANGED notGpu

\* stats.get_card_most_free()
GetCardMostFree ==
    /\ stats.built
    /\ result' = get_card_most_free(stats)
    /\ last' = "query"
    /\ UNCHANGED <<backend, hw_count, hw_free, env, excl, stats, warnings,
                   hw_at_init, nqual, nqual_log>>
    /\ UNCHANGED notGpu

NextGpu == HwChange \/ SetExcludeDevices \/ Construct \/ GetCardMostFree

NextActive == SetExcludeDevices \/ Construct

(***************************************************************************)
(* tools/preview/preview.py: class Samples                                 *)
(***************************************************************************)
\* Samples(arguments, 5, ...): the number of preview samples
SampleSize == 5

\* list[a:b] for 0 <= a, 0 <= b
PySlice(s, a, b) ==
    LET hi == Min2(b, Len(s))
    IN  IF a >= hi THEN <<>> ELSE SubSeq(s, a + 1, hi)

\* list(range(0, stop, step)) for step > 0
RangeStep(stop, step) ==
    [k \in 1..((stop + step - 1) \div step) |-> (k - 1) * step]

\* mutant: the whole remainder is cut from the end of the file list
get_indices_tail(n, size_of_sample) ==
    LET crop == n % size_of_sample
        top_tail == PySlice(RangeList(n), 0, n - crop)
        size == Len(top_tail)
        step == size \div size_of_sample
    IN  IF step = 0
        THEN [raised |-> "ValueError", pools |-> <<>>]
        ELSE [raised |-> "none",
              pools |-> [k \in 1..Len(RangeStep(size, step)) |->
                            PySlice(top_tail, RangeStep(size, step)[k],
                                    RangeStep(size, step)[k] + step)]]

\* Samples._get_indices; range() raises ValueError on a step of zero
get_indices(n, size_of_sample) ==
    LET crop == n % size_of_sample
        top_tail == PySlice(RangeList(n), crop \div 2,
                            n - (crop - (crop \div 2)))
        size == Len(top_tail)
        step == size \div size_of_sample
    IN  IF step = 0
        THEN [raised |-> "ValueError", pools |-> <<>>]
        ELSE [raised |-> "none",
              pools |-> [k \in 1..Len(RangeStep(size, step)) |->
                            PySlice(top_tail, RangeStep(size, step)[k],
                                    RangeStep(size, step)[k] + step)]]

NoIndices == [raised |-> "none", pools |-> <<>>]

\* the schema of an alignments file: the unversioned legacy format that
\* reads as version 1.0, a versioned schema older than the current one, the
\* current one, or one that is newer than the program
FileVersions == {"1.0", "older", "current", "newer"}

NoAlignments == [version |-> "none", migrated |-> FALSE, raised |-> "none"]

\* Alignments(arguments, ...): the object built from a file of the version
alignments_load(version) ==
    CASE version = "newer" ->
            [version |-> "none", migrated |-> FALSE, raised |-> "FormatError"]
      [] version = "older" ->
            [version |-> "current", migrated |-> TRUE, raised |-> "none"]
      [] OTHER ->
            [version |-> version, migrated |-> FALSE, raised |-> "none"]

NoError == [type |-> "none", msg |-> "none"]

Error(type, msg) == [type |-> type, msg |-> msg]

\* the errors Samples.__init__ logs before sys.exit(1)
FormatUpdatedMsg == "The alignments file format has been updated since the given alignments file was generated. You need to update the file to proceed."

FileNotFoundMsg == "Alignments file not found"

\* the message of the FaceswapError of Samples._get_filelist
NoFacesMsg == "No faces were found in any of the frames passed in. Make sure you are passing in a frames source rather than extracted faces, and that you have provided the correct alignments file."

\* mutant: a legacy file passes the check
check_alignments_any(version, file_found) ==
    IF ~file_found THEN Error("SystemExit(1)", FileNotFoundMsg) ELSE NoError

\* Samples.__init__: the checks of the loaded alignments
check_alignments(version, file_found) ==
    IF version = "1.0" THEN Error("SystemExit(1)", FormatUpdatedMsg)
    ELSE IF ~file_found THEN Error("SystemExit(1)", FileNotFoundMsg)
    ELSE NoError

\* mutant: an empty list of frames is returned like any other
get_filelist_unchecked(n) == NoError

\* Samples._get_filelist on n frames that have faces: what it raises
get_filelist(n) ==
    IF n = 0 THEN Error("FaceswapError", NoFacesMsg) ELSE NoError

InitSamplesVars ==
    /\ alignments = NoAlignments
    /\ samples_err = NoError
    /\ indices = NoIndices
    /\ samples_pc = "alignments"

\* the Samples object of the preview tool: five pools of one frame each
IdleSamples ==
    /\ no_files = SampleSize
    /\ sample_size = SampleSize
    /\ file_version = "current"
    /\ have_file = TRUE
    /\ alignments = alignments_load("current")
    /\ samples_err = NoError
    /\ indices = get_indices(SampleSize, SampleSize)
    /\ samples_pc = "built"

\* Samples.__init__: self._alignments = Alignments(...)
LoadAlignments ==
    /\ samples_pc = "alignments"
    /\ alignments' = alignments_load(file_version)
    /\ IF alignments'.raised # "none"
       THEN /\ samples_pc' = alignments'.raised
            /\ samples_err' = Error(alignments'.raised, "none")
       ELSE /\ samples_pc' = "check_alignments"
            /\ UNCHANGED samples_err
    /\ UNCHANGED <<no_files, sample_size, indices, file_version, have_file>>
    /\ UNCHANGED notSamples

\* Samples.__init__: version 1.0 and a missing file end the process
CheckAlignments ==
    /\ samples_pc = "check_alignments"
    /\ samples_err' = check_alignments(alignments.version, have_file)
    /\ samples_pc' = IF samples_err' = NoError THEN "get_filelist" ELSE "exit"
    /\ UNCHANGED <<no_files, sample_size, indices, file_version, have_file,
                   alignments>>
    /\ UNCHANGED notSamples

\* Samples._get_filelist: FaceswapError when no frame has a face
GetFilelist ==
    /\ samples_pc = "get_filelist"
    /\ samples_err' = get_filelist(no_files)
    /\ samples_pc' = IF samples_err' = NoError THEN "get_indices"
                     ELSE samples_err'.type
    /\ UNCHANGED <<no_files, sample_size, indices, file_version, have_file,
                   alignments>>
    /\ UNCHANGED notSamples

\* Samples._get_indices
GetIndices ==
    /\ samples_pc = "get_indices"
    /\ indices' = get_indices(no_files, sample_size)
    /\ IF indices'.raised = "none"
       THEN /\ samples_pc' = "predictor"
            /\ UNCHANGED samples_err
       ELSE /\ samples_pc' = indices'.raised
            /\ samples_err' = Error(indices'.raised, "none")
    /\ UNCHANGED <<no_files, sample_size, file_version, have_file, alignments>>
    /\ UNCHANGED notSamples

\* Samples.__init__: the Predict object is created
CreatePredictor ==
    /\ samples_pc = "predictor"
    /\ samples_pc' = "generate"
    /\ UNCHANGED <<no_files, sample_size, indices, file_version, have_file,
                   alignments, samples_err>>
    /\ UNCHANGED notSamples

(***************************************************************************)
(* tools/preview/preview.py: Preview, Samples.generate, Patch, ConfigTools *)
(* The GUI (main) thread and the patch thread interleave between steps.    *)
(***************************************************************************)

Options == 1..NumOptions

OptValues == 0..MaxOptValue

CliOptions == {"color", "mask_type"}

\* tk variable of a numeric field left blank: get() raises TclError
Blank == -1

\* a value of the config parser: the text str(v), or another text that
\* reads as the same value
ConfigText(v, form) == [val |-> v, form |-> form]

ConfigTexts == {ConfigText(v, f) : v \in OptValues, f \in {"str", "other"}}

\* str(value)
Str(v) == ConfigText(v, "str")

\* Config.get: the typed value of a stored text
ConfigGet(text) == text.val

\* a command line choice as shown in the GUI or as passed to the converter
Choice(name, form) == [name |-> name, form |-> form]

\* ActionFrame._format_from_display: spaces become underscores, lower case;
\* the hyphens of a command line value stay
format_from_display(var) ==
    IF var.form = "display" THEN Choice(var.name, "arg") ELSE var

\* ActionFrame._format_to_display: underscores and hyphens become spaces,
\* title case
format_to_display(var) == Choice(var.name, "display")

\* ActionFrame.convert_args
convert_args(cli) ==
    [isset |-> TRUE,
     color_adjustment |-> format_from_display(cli["color"]),
     mask_type |-> format_from_display(cli["mask_type"])]

\* Patch.converter_arguments = None
NoArguments ==
    [isset |-> FALSE, color_adjustment |-> Choice(0, "arg"),
     mask_type |-> Choice(0, "arg")]

\* Patch._generate_converter_arguments: the cli_arguments the Converter is
\* created with, in the form of the command line ("avg-color")
DefaultArguments ==
    [color_adjustment |-> Choice(0, "cli"), mask_type |-> Choice(0, "cli")]

\* Patch._update_converter_arguments: the converter's cli_arguments after it
update_converter_arguments(cli_arguments, arguments) ==
    IF ~arguments.isset
    THEN cli_arguments
    ELSE [color_adjustment |-> arguments.color_adjustment,
          mask_type |-> arguments.mask_type]

\* ConfigTools.update_config, one item of the loop: the config after it
update_config_item(cfg, item, value) ==
    LET new_value == IF value = Blank THEN Str(0) ELSE Str(value)
    IN  IF new_value # cfg[item]
        THEN [cfg EXCEPT ![item] = new_value]
        ELSE cfg

\* the configuration section of an option: every option is in a section of
\* its own
SectionOf(o) == o

Sections == {SectionOf(o) : o \in Options}

\* save_config(section=None)
AllSections == 0

\* save_config: the options it takes from the GUI
Selected(section) ==
    {o \in Options : section = AllSections \/ SectionOf(o) = section}

\* save_config: the text it writes for an option; tk_vars of the selected
\* section, self._config.get of the others
saved_option(section, o) ==
    IF o \in Selected(section)
    THEN Str(tk_vars[o])
    ELSE Str(ConfigGet(config[o]))

\* an item of the queues: a predicted face of a sample set, or the sentinel
Item(set, idx) == [kind |-> "item", set |-> set, idx |-> idx]

EOF == [kind |-> "EOF", set |-> -1, idx |-> -1]

\* the predicted faces of one complete sample set
FullSet(set) == [k \in 1..sample_size |-> Item(set, k)]

Inc2(n) == Min2(n + 1, 2)

RunPcs == {"flush", "feed", "lock1", "reinit", "patch", "lock2", "publish",
           "set_refresh", "clear_busy"}

\* the statements of one patch run in the order of Patch._process, from the
\* clearing of the trigger back to the wait
RunOrder == <<"clear", "flush", "feed", "lock1", "reinit", "patch", "lock2",
              "publish", "set_refresh", "clear_busy", "wait">>

\* mutant: every frame is picked from the first pool
random_choice_first(pools) ==
    IF pools = <<>>
    THEN {<<>>}
    ELSE {[k \in 1..Len(pools) |-> x] : x \in Range(Head(pools))}

\* Samples._random_choice: the lists it can return, one index of every pool
RECURSIVE random_choice(_)
random_choice(pools) ==
    IF pools = <<>>
    THEN {<<>>}
    ELSE {<<x>> \o rest : x \in Range(Head(pools)),
                          rest \in random_choice(Tail(pools))}

\* what the construction of the sample set and the start of the patch thread
\* leave as it was created
PreviewObjects ==
    /\ shutdown = FALSE
    /\ lock = "free"
    /\ wait_result = FALSE
    /\ gui_idx = 1
    /\ tk_vars = [o \in Options |-> ConfigGet(config[o])]
    /\ cli_vars = [c \in CliOptions |-> format_to_display(Choice(0, "cli"))]
    /\ converter_arguments = NoArguments
    /\ conv_args = DefaultArguments
    /\ conv_config = [o \in Options |-> ConfigGet(config[o])]
    /\ busy = FALSE
    /\ refresh = FALSE
    /\ feed_set = 0
    /\ feed_idx = 0
    /\ patch_queue_in = <<>>
    /\ swapped = <<>>
    /\ display_destination = <<>>
    /\ events = 0
    /\ wrote = FALSE
    /\ sets_in_flight = 0
    /\ runs_since_set = 0
    /\ run_sets = -1
    /\ run_flight = -1
    /\ shutdown_at = "none"
    /\ retired = [set \in 0..MaxEvents |-> 0]
    /\ by_refresh = [pending |-> FALSE, running |-> FALSE]
    /\ faces = [matrix |-> -1, dst |-> <<>>, raised |-> "none"]
    /\ ini = config
    /\ config_dicts = [o \in Options |-> ConfigGet(config[o])]
    /\ last_save = [n |-> 0, section |-> AllSections, raised |-> FALSE]

\* the state left by Preview.__init__ and _build_ui: the first sample set is
\* generated and its patch run is triggered, the patch thread is started
InitPreviewVars ==
    /\ PreviewObjects
    /\ trigger = TRUE
    /\ patch_pc = "wait"
    /\ gui_pc = "idle"
    /\ input_images = 0
    /\ selection \in random_choice(indices.pools)
    /\ pred_set = 0
    /\ predicted_images = FullSet(0)
    /\ display_source = 0
    /\ update_source = TRUE
    /\ sets_since_clear = 1

\* the state in which Samples.__init__ begins: no sample set is loaded, the
\* lists are empty, the trigger is clear and the patch thread does not exist
UnbuiltPreviewVars ==
    /\ PreviewObjects
    /\ trigger = FALSE
    /\ patch_pc = "unstarted"
    /\ gui_pc = "init"
    /\ input_images = -1
    /\ selection = <<>>
    /\ pred_set = -1
    /\ predicted_images = <<>>
    /\ display_source = -1
    /\ update_source = FALSE
    /\ sets_since_clear = 0

\* the preview part before the sample set is built
UnbuiltPreview ==
    /\ config = [o \in Options |-> Str(0)]
    /\ UnbuiltPreviewVars

\* the preview part at rest
IdlePreview ==
    /\ config = [o \in Options |-> Str(0)]
    /\ InitPreviewVars

\* ---- the GUI thread ----

\* the user changes a configuration option: the trace on the tk variable
\* calls Preview._refresh
GuiOptionWrite ==
    /\ gui_pc = "idle"
    /\ events < MaxEvents
    /\ \E o \in Options, v \in OptValues \cup {Blank} :
          /\ tk_vars[o] # v
          /\ tk_vars' = [tk_vars EXCEPT ![o] = v]
    /\ events' = events + 1
    /\ gui_pc' = "r_busy"
    /\ wrote' = FALSE
    /\ UNCHANGED <<trigger, shutdown, lock, patch_pc, wait_result, gui_idx,
                   cli_vars, config, converter_arguments, conv_args,
                   conv_config, busy, refresh, input_images, pred_set,
                   predicted_images, feed_set, feed_idx, patch_queue_in,
                   swapped, display_source, update_source,
                   display_destination, sets_since_clear, sets_in_flight,
                   runs_since_set, run_sets, run_flight, shutdown_at,
                   selection, ini, config_dicts, last_save, retired,
                   by_refresh, faces>>
    /\ UNCHANGED notPreview

\* the user changes a command line choice: the trace calls Preview._refresh
GuiCliWrite ==
    /\ gui_pc = "idle"
    /\ events < MaxEvents
    /\ \E c \in CliOptions, n \in OptValues :
          /\ cli_vars[c] # Choice(n, "display")
          /\ cli_vars' = [cli_vars EXCEPT ![c] = Choice(n, "display")]
    /\ events' = events + 1
    /\ gui_pc' = "r_busy"
    /\ wrote' = FALSE
    /\ UNCHANGED <<trigger, shutdown, lock, patch_pc, wait_result, gui_idx,
                   tk_vars, config, converter_arguments, conv_args,
                   conv_config, busy, refresh, input_images, pred_set,
                   predicted_images, feed_set, feed_idx, patch_queue_in,
                   swapped, display_source, update_source,
                   display_destination, sets_since_clear, sets_in_flight,
                   runs_since_set, run_sets, run_flight, shutdown_at,
                   selection, ini, config_dicts, last_save, retired,
                   by_refresh, faces>>
    /\ UNCHANGED notPreview

\* Preview._refresh: self._tk_vars["busy"].set(True)
RefreshSetBusy ==
    /\ gui_pc = "r_busy"
    /\ busy' = TRUE
    /\ gui_idx' = 1
    /\ gui_pc' = "r_update"
    /\ UNCHANGED <<trigger, shutdown, lock, patch_pc, wait_result, tk_vars,
                   cli_vars, config, converter_arguments, conv_args,
                   conv_config, refresh, input_images, pred_set,
                   predicted_images, feed_set, feed_idx, patch_queue_in,
                   swapped, display_source, update_source,
                   display_destination, events, wrote, sets_since_clear,
                   sets_in_flight, runs_since_set, run_sets, run_flight,
                   shutdown_at, selection, ini, config_dicts, last_save,
                   retired, by_refresh, faces>>
    /\ UNCHANGED notPreview

\* ConfigTools.update_config: one iteration of the loop over the options
UpdateConfigItem ==
    /\ gui_pc = "r_update"
    /\ IF gui_idx <= NumOptions
       THEN /\ config' = update_config_item(config, gui_idx, tk_vars[gui_idx])
            /\ wrote' = (wrote \/ config' # config)
            /\ gui_idx' = gui_idx + 1
            /\ gui_pc' = gui_pc
       ELSE /\ gui_pc' = "r_lock"
            /\ UNCHANGED <<config, wrote, gui_idx>>
    /\ UNCHANGED <<trigger, shutdown, lock, patch_pc, wait_result, tk_vars,
                   cli_vars, converter_arguments, conv_args, conv_config,
                   busy, refresh, input_images, pred_set, predicted_images,
                   feed_set, feed_idx, patch_queue_in, swapped,
                   display_source, update_source, display_destination, events,
                   sets_since_clear, sets_in_flight, runs_since_set, run_sets,
                   run_flight, shutdown_at, selection, ini, config_dicts,
                   last_save, retired, by_refresh, faces>>
    /\ UNCHANGED notPreview

\* Preview._refresh: with self._lock
RefreshAcquire ==
    /\ gui_pc = "r_lock"
    /\ lock = "free"
    /\ lock' = "gui"
    /\ gui_pc' = "r_assign"
    /\ UNCHANGED <<trigger, shutdown, patch_pc, wait_result, gui_idx, tk_vars,
                   cli_vars, config, converter_arguments, conv_args,
                   conv_config, busy, refresh, input_images, pred_set,
                   predicted_images, feed_set, feed_idx, patch_queue_in,
                   swapped, display_source, update_source,
                   display_destination, events, wrote, sets_since_clear,
                   sets_in_flight, runs_since_set, run_sets, run_flight,
                   shutdown_at, selection, ini, config_dicts, last_save,
                   retired, by_refresh, faces>>
    /\ UNCHANGED notPreview

\* Preview._refresh: converter_arguments and current_config are assigned
\* (current_config is the Config object update_config has written into)
RefreshAssign ==
    /\ gui_pc = "r_assign"
    /\ converter_arguments' = convert_args(cli_vars)
    /\ lock' = "free"
    /\ gui_pc' = "r_trigger"
    /\ UNCHANGED <<trigger, shutdown, patch_pc, wait_result, gui_idx, tk_vars,
                   cli_vars, config, conv_args, conv_config, busy, refresh,
                   input_images, pred_set, predicted_images, feed_set,
                   feed_idx, patch_queue_in, swapped, display_source,
                   update_source, display_destination, events, wrote,
                   sets_since_clear, sets_in_flight, runs_since_set, run_sets,
                   run_flight, shutdown_at, selection, ini, config_dicts,
                   last_save, retired, by_refresh, faces>>
    /\ UNCHANGED notPreview

\* threading.Event.set() on the patch trigger
SetTrigger ==
    /\ trigger' = TRUE
    /\ sets_since_clear' = Inc2(sets_since_clear)
    /\ sets_in_flight' = IF patch_pc \in RunPcs THEN Inc2(sets_in_flight)
                         ELSE sets_in_flight
    /\ runs_since_set' = 0

\* Preview._refresh: self._patch.trigger.set()
RefreshTrigger ==
    /\ gui_pc = "r_trigger"
    /\ SetTrigger
    /\ by_refresh' = [by_refresh EXCEPT !.pending = TRUE]
    /\ gui_pc' = "idle"
    /\ wrote' = FALSE
    /\ UNCHANGED <<shutdown, lock, patch_pc, wait_result, gui_idx, tk_vars,
                   cli_vars, config, converter_arguments, conv_args,
                   conv_config, busy, refresh, input_images, pred_set,
                   predicted_images, feed_set, feed_idx, patch_queue_in,
                   swapped, display_source, update_source,
                   display_destination, events, run_sets, run_flight,
                   shutdown_at, selection, ini, config_dicts, last_save,
                   retired, faces>>
    /\ UNCHANGED notPreview

\* ConfigTools.save_config, called by a "Save" button. A blank numeric field
\* of a selected section raises TclError at its get(): the options before it
\* have set their saved value, no configuration is installed or written.
SaveConfig ==
    /\ gui_pc = "idle"
    /\ events < MaxEvents
    /\ \E section \in Sections \cup {AllSections} :
          LET blanks == {o \in Selected(section) : tk_vars[o] = Blank}
              reached == {o \in Selected(section) : \A p \in blanks : o < p}
          IN  /\ config_dicts' = [o \in Options |->
                    IF o \in reached THEN tk_vars[o] ELSE config_dicts[o]]
              /\ IF blanks = {}
                 THEN /\ config' = [o \in Options |-> saved_option(section, o)]
                      /\ ini' = config'
                 ELSE UNCHANGED <<config, ini>>
              /\ last_save' = [n |-> last_save.n + 1, section |-> section,
                               raised |-> blanks # {}]
    /\ events' = events + 1
    /\ UNCHANGED <<trigger, shutdown, lock, patch_pc, wait_result, gui_pc,
                   gui_idx, tk_vars, cli_vars, converter_arguments, conv_args,
                   conv_config, busy, refresh, input_images, pred_set,
                   predicted_images, feed_set, feed_idx, patch_queue_in,
                   swapped, display_source, update_source,
                   display_destination, wrote, sets_since_clear,
                   sets_in_flight, runs_since_set, run_sets, run_flight,
                   shutdown_at, selection, retired, by_refresh, faces>>
    /\ UNCHANGED notPreview

\* Samples.__init__ and the "Update Samples" button call Samples.generate:
\* _load_frames
LoadFrames ==
    /\ \/ gui_pc = "idle" /\ events < MaxEvents
       \/ gui_pc = "init" /\ samples_pc = "generate"
    /\ events' = IF gui_pc = "idle" THEN events + 1 ELSE events
    /\ selection' \in random_choice(indices.pools)
    /\ input_images' = input_images + 1
    /\ display_source' = input_images + 1
    /\ update_source' = TRUE
    /\ gui_pc' = "g_lock"
    /\ UNCHANGED <<trigger, shutdown, lock, patch_pc, wait_result, gui_idx,
                   tk_vars, cli_vars, config, converter_arguments, conv_args,
                   conv_config, busy, refresh, pred_set, predicted_images,
                   feed_set, feed_idx, patch_queue_in, swapped,
                   display_destination, wrote, sets_since_clear,
                   sets_in_flight, runs_since_set, run_sets, run_flight,
                   shutdown_at, ini, config_dicts, last_save, retired,
                   by_refresh, faces>>
    /\ UNCHANGED notPreview

\* Samples._predict: with self._lock, self._predicted_images is bound to a
\* new empty list and the frames are put to the predictor
PredictAcquire ==
    /\ gui_pc = "g_lock"
    /\ lock = "free"
    /\ lock' = "gui"
    /\ pred_set' = input_images
    /\ predicted_images' = <<>>
    /\ retired' = IF pred_set >= 0
                  THEN [retired EXCEPT ![pred_set] = Len(predicted_images)]
                  ELSE retired
    /\ gui_pc' = "g_fill"
    /\ UNCHANGED <<trigger, shutdown, patch_pc, wait_result, gui_idx, tk_vars,
                   cli_vars, config, converter_arguments, conv_args,
                   conv_config, busy, refresh, input_images, feed_set,
                   feed_idx, patch_queue_in, swapped, display_source,
                   update_source, display_destination, events, wrote,
                   sets_since_clear, sets_in_flight, runs_since_set, run_sets,
                   run_flight, shutdown_at, selection, ini, config_dicts,
                   last_save, by_refresh, faces>>
    /\ UNCHANGED notPreview

\* Samples._predict: one predicted face is appended; the lock is released
\* after the last one
PredictItem ==
    /\ gui_pc = "g_fill"
    /\ IF Len(predicted_images) < sample_size
       THEN /\ predicted_images' =
                   Append(predicted_images,
                          Item(pred_set, Len(predicted_images) + 1))
            /\ UNCHANGED <<lock, gui_pc>>
       ELSE /\ lock' = "free"
            /\ gui_pc' = "g_trigger"
            /\ UNCHANGED predicted_images
    /\ UNCHANGED <<trigger, shutdown, patch_pc, wait_result, gui_idx, tk_vars,
                   cli_vars, config, converter_arguments, conv_args,
                   conv_config, busy, refresh, input_images, pred_set,
                   feed_set, feed_idx, patch_queue_in, swapped,
                   display_source, update_source, display_destination, events,
                   wrote, sets_since_clear, sets_in_flight, runs_since_set,
                   run_sets, run_flight, shutdown_at, selection, ini,
                   config_dicts, last_save, retired, by_refresh, faces>>
    /\ UNCHANGED notPreview

\* Samples._predict: the predictor's out queue yields "EOF" before
\* sample_size faces were predicted; the loop breaks and the lock is released
PredictEOF ==
    /\ gui_pc = "g_fill"
    /\ Len(predicted_images) < sample_size
    /\ lock' = "free"
    /\ gui_pc' = "g_trigger"
    /\ UNCHANGED <<trigger, shutdown, patch_pc, wait_result, gui_idx, tk_vars,
                   cli_vars, config, converter_arguments, conv_args,
                   conv_config, busy, refresh, input_images, pred_set,
                   predicted_images, feed_set, feed_idx, patch_queue_in,
                   swapped, display_source, update_source,
                   display_destination, events, wrote, sets_since_clear,
                   sets_in_flight, runs_since_set, run_sets, run_flight,
                   shutdown_at, selection, ini, config_dicts, last_save,
                   retired, by_refresh, faces>>
    /\ UNCHANGED notPreview

\* Samples.generate: self._trigger_patch.set()
GenerateTrigger ==
    /\ gui_pc = "g_trigger"
    /\ SetTrigger
    /\ gui_pc' = IF samples_pc = "generate" THEN "returned" ELSE "idle"
    /\ UNCHANGED <<shutdown, lock, patch_pc, wait_result, gui_idx, tk_vars,
                   cli_vars, config, converter_arguments, conv_args,
                   conv_config, busy, refresh, input_images, pred_set,
                   predicted_images, feed_set, feed_idx, patch_queue_in,
                   swapped, display_source, update_source,
                   display_destination, events, wrote, run_sets, run_flight,
                   shutdown_at, selection, ini, config_dicts, last_save,
                   retired, by_refresh, faces>>
    /\ UNCHANGED notPreview

\* ---- the patch thread: Patch._process ----

\* trigger = trigger_event.wait(1): the flag at the time the wait returns
PatchWait ==
    /\ patch_pc = "wait"
    /\ wait_result' = trigger
    /\ patch_pc' = "check"
    /\ UNCHANGED <<trigger, shutdown, lock, gui_pc, gui_idx, tk_vars,
                   cli_vars, config, converter_arguments, conv_args,
                   conv_config, busy, refresh, input_images, pred_set,
                   predicted_images, feed_set, feed_idx, patch_queue_in,
                   swapped, display_source, update_source,
                   display_destination, events, wrote, sets_since_clear,
                   sets_in_flight, runs_since_set, run_sets, run_flight,
                   shutdown_at, selection, ini, config_dicts, last_save,
                   retired, by_refresh, faces>>
    /\ UNCHANGED notPreview

\* if shutdown_event.is_set(): break; if not trigger: continue
PatchCheck ==
    /\ patch_pc = "check"
    /\ IF shutdown
       THEN /\ patch_pc' = "closed"
            /\ UNCHANGED <<runs_since_set, run_sets, run_flight>>
       ELSE IF ~wait_result
       THEN /\ patch_pc' = "wait"
            /\ UNCHANGED <<runs_since_set, run_sets, run_flight>>
       ELSE /\ patch_pc' = "clear"
            /\ runs_since_set' = Inc2(runs_since_set)
            /\ run_sets' = sets_since_clear
            /\ run_flight' = sets_in_flight
    /\ UNCHANGED <<trigger, shutdown, lock, wait_result, gui_pc, gui_idx,
                   tk_vars, cli_vars, config, converter_arguments, conv_args,
                   conv_config, busy, refresh, input_images, pred_set,
                   predicted_images, feed_set, feed_idx, patch_queue_in,
                   swapped, display_source, update_source,
                   display_destination, events, wrote, sets_since_clear,
                   sets_in_flight, shutdown_at, selection, ini, config_dicts,
                   last_save, retired, by_refresh, faces>>
    /\ UNCHANGED notPreview

\* mutant: the trigger is left set when a run starts
clear_event_kept(flag) == flag

\* threading.Event.clear(): the flag after it
clear_event(flag) == FALSE

\* trigger_event.clear()
PatchClear ==
    /\ patch_pc = "clear"
    /\ trigger' = clear_event(trigger)
    /\ by_refresh' = [pending |-> FALSE,
                      running |-> by_refresh.running \/ by_refresh.pending]
    /\ sets_since_clear' = 0
    /\ sets_in_flight' = 0
    /\ patch_pc' = "flush"
    /\ UNCHANGED <<shutdown, lock, wait_result, gui_pc, gui_idx, tk_vars,
                   cli_vars, config, converter_arguments, conv_args,
                   conv_config, busy, refresh, input_images, pred_set,
                   predicted_images, feed_set, feed_idx, patch_queue_in,
                   swapped, display_source, update_source,
                   display_destination, events, wrote, runs_since_set,
                   run_sets, run_flight, shutdown_at, selection, ini,
                   config_dicts, last_save, retired, faces>>
    /\ UNCHANGED notPreview

\* QueueManager.flush_queue: the queue after it
flush_queue(queue) == <<>>

\* queue_manager.flush_queue("preview_patch_in")
PatchFlush ==
    /\ patch_pc = "flush"
    /\ patch_queue_in' = flush_queue(patch_queue_in)
    /\ patch_pc' = "feed"
    /\ UNCHANGED <<trigger, shutdown, lock, wait_result, gui_pc, gui_idx,
                   tk_vars, cli_vars, config, converter_arguments, conv_args,
                   conv_config, busy, refresh, input_images, pred_set,
                   predicted_images, feed_set, feed_idx, swapped,
                   display_source, update_source, display_destination, events,
                   wrote, sets_since_clear, sets_in_flight, runs_since_set,
                   run_sets, run_flight, shutdown_at, selection, ini,
                   config_dicts, last_save, retired, by_refresh, faces>>
    /\ UNCHANGED notPreview

\* the list object the feeding loop iterates over: the list bound to
\* predicted_images when the loop began
FeedList ==
    IF feed_set = pred_set
    THEN predicted_images
    ELSE SubSeq(FullSet(feed_set), 1, retired[feed_set])

\* mutant: the item overtakes the items that are waiting in the queue
put_first(queue, item) == <<item>> \o queue

\* EventQueue.put: the queue after it
put(queue, item) == Append(queue, item)

\* Patch._feed_swapped_faces: one step of the loop over
\* samples.predicted_images (read without the lock), then "EOF"
FeedSwappedFaces ==
    /\ patch_pc = "feed"
    /\ IF feed_idx = 0 /\ Len(predicted_images) > 0
       THEN /\ feed_set' = pred_set
            /\ feed_idx' = 1
            /\ patch_queue_in' = put(patch_queue_in, predicted_images[1])
            /\ UNCHANGED patch_pc
       ELSE IF feed_idx > 0 /\ feed_idx < Len(FeedList)
       THEN /\ feed_idx' = feed_idx + 1
            /\ patch_queue_in' = put(patch_queue_in, FeedList[feed_idx + 1])
            /\ UNCHANGED <<feed_set, patch_pc>>
       ELSE /\ feed_idx' = 0
            /\ patch_queue_in' = put(patch_queue_in, EOF)
            /\ patch_pc' = "lock1"
            /\ UNCHANGED feed_set
    /\ UNCHANGED <<trigger, shutdown, lock, wait_result, gui_pc, gui_idx,
                   tk_vars, cli_vars, config, converter_arguments, conv_args,
                   conv_config, busy, refresh, input_images, pred_set,
                   predicted_images, swapped, display_source, update_source,
                   display_destination, events, wrote, sets_since_clear,
                   sets_in_flight, runs_since_set, run_sets, run_flight,
                   shutdown_at, selection, ini, config_dicts, last_save,
                   retired, by_refresh, faces>>
    /\ UNCHANGED notPreview

\* with self._lock (before the converter is reinitialised)
PatchAcquireConfig ==
    /\ patch_pc = "lock1"
    /\ lock = "free"
    /\ lock' = "patch"
    /\ patch_pc' = "reinit"
    /\ UNCHANGED <<trigger, shutdown, wait_result, gui_pc, gui_idx, tk_vars,
                   cli_vars, config, converter_arguments, conv_args,
                   conv_config, busy, refresh, input_images, pred_set,
                   predicted_images, feed_set, feed_idx, patch_queue_in,
                   swapped, display_source, update_source,
                   display_destination, events, wrote, sets_since_clear,
                   sets_in_flight, runs_since_set, run_sets, run_flight,
                   shutdown_at, selection, ini, config_dicts, last_save,
                   retired, by_refresh, faces>>
    /\ UNCHANGED notPreview

\* self._update_converter_arguments();
\* self._converter.reinitialize(config=self.current_config)
PatchReinitialize ==
    /\ patch_pc = "reinit"
    /\ conv_args' = update_converter_arguments(conv_args, converter_arguments)
    /\ conv_config' = [o \in Options |-> ConfigGet(config[o])]
    /\ lock' = "free"
    /\ patch_pc' = "patch"
    /\ UNCHANGED <<trigger, shutdown, wait_result, gui_pc, gui_idx, tk_vars,
                   cli_vars, config, converter_arguments, busy, refresh,
                   input_images, pred_set, predicted_images, feed_set,
                   feed_idx, patch_queue_in, swapped, display_source,
                   update_source, display_destination, events, wrote,
                   sets_since_clear, sets_in_flight, runs_since_set, run_sets,
                   run_flight, shutdown_at, selection, ini, config_dicts,
                   last_save, retired, by_refresh, faces>>
    /\ UNCHANGED notPreview

\* the items of a queue in front of the first "EOF"
RECURSIVE UpToEOF(_)
UpToEOF(q) ==
    IF q = <<>> \/ Head(q) = EOF THEN <<>> ELSE <<Head(q)>> \o UpToEOF(Tail(q))

\* mutant: the patching loop gives up when a shutdown has been requested
PatchFacesTornDown ==
    /\ patch_pc = "patch"
    /\ IF shutdown
       THEN /\ patch_pc' = "closed"
            /\ UNCHANGED <<swapped, patch_queue_in>>
       ELSE /\ Len(UpToEOF(patch_queue_in)) >= sample_size
            /\ swapped' = SubSeq(UpToEOF(patch_queue_in), 1, sample_size)
            /\ patch_queue_in' = <<>>
            /\ patch_pc' = "lock2"
    /\ UNCHANGED <<trigger, shutdown, lock, wait_result, gui_pc, gui_idx,
                   tk_vars, cli_vars, config, converter_arguments, conv_args,
                   conv_config, busy, refresh, input_images, pred_set,
                   predicted_images, feed_set, feed_idx, display_source,
                   update_source, display_destination, events, wrote,
                   sets_since_clear, sets_in_flight, runs_since_set, run_sets,
                   run_flight, shutdown_at, selection, ini, config_dicts,
                   last_save, retired, by_refresh, faces>>
    /\ UNCHANGED notPreview

\* Patch._patch_faces: the converter turns the queued items up to "EOF" into
\* outputs; the loop returns after sample_size outputs and blocks on
\* queue_out.get() when there are fewer
PatchFaces ==
    /\ patch_pc = "patch"
    /\ Len(UpToEOF(patch_queue_in)) >= sample_size
    /\ swapped' = SubSeq(UpToEOF(patch_queue_in), 1, sample_size)
    /\ patch_queue_in' = <<>>
    /\ patch_pc' = "lock2"
    /\ UNCHANGED <<trigger, shutdown, lock, wait_result, gui_pc, gui_idx,
                   tk_vars, cli_vars, config, converter_arguments, conv_args,
                   conv_config, busy, refresh, input_images, pred_set,
                   predicted_images, feed_set, feed_idx, display_source,
                   update_source, display_destination, events, wrote,
                   sets_since_clear, sets_in_flight, runs_since_set, run_sets,
                   run_flight, shutdown_at, selection, ini, config_dicts,
                   last_save, retired, by_refresh, faces>>
    /\ UNCHANGED notPreview

\* with self._lock (before the destination images are set)
PatchAcquireDisplay ==
    /\ patch_pc = "lock2"
    /\ lock = "free"
    /\ lock' = "patch"
    /\ patch_pc' = "publish"
    /\ UNCHANGED <<trigger, shutdown, wait_result, gui_pc, gui_idx, tk_vars,
                   cli_vars, config, converter_arguments, conv_args,
                   conv_config, busy, refresh, input_images, pred_set,
                   predicted_images, feed_set, feed_idx, patch_queue_in,
                   swapped, display_source, update_source,
                   display_destination, events, wrote, sets_since_clear,
                   sets_in_flight, runs_since_set, run_sets, run_flight,
                   shutdown_at, selection, ini, config_dicts, last_save,
                   retired, by_refresh, faces>>
    /\ UNCHANGED notPreview

\* self._display.destination = swapped
PatchPublish ==
    /\ patch_pc = "publish"
    /\ display_destination' = swapped
    /\ lock' = "free"
    /\ patch_pc' = "set_refresh"
    /\ UNCHANGED <<trigger, shutdown, wait_result, gui_pc, gui_idx, tk_vars,
                   cli_vars, config, converter_arguments, conv_args,
                   conv_config, busy, refresh, input_images, pred_set,
                   predicted_images, feed_set, feed_idx, patch_queue_in,
                   swapped, display_source, update_source, events, wrote,
                   sets_since_clear, sets_in_flight, runs_since_set, run_sets,
                   run_flight, shutdown_at, selection, ini, config_dicts,
                   last_save, retired, by_refresh, faces>>
    /\ UNCHANGED notPreview

\* tk_vars["refresh"].set(True)
PatchSetRefresh ==
    /\ patch_pc = "set_refresh"
    /\ refresh' = TRUE
    /\ patch_pc' = "clear_busy"
    /\ UNCHANGED <<trigger, shutdown, lock, wait_result, gui_pc, gui_idx,
                   tk_vars, cli_vars, config, converter_arguments, conv_args,
                   conv_config, busy, input_images, pred_set,
                   predicted_images, feed_set, feed_idx, patch_queue_in,
                   swapped, display_source, update_source,
                   display_destination, events, wrote, sets_since_clear,
                   sets_in_flight, runs_since_set, run_sets, run_flight,
                   shutdown_at, selection, ini, config_dicts, last_save,
                   retired, by_refresh, faces>>
    /\ UNCHANGED notPreview

\* tk_vars["busy"].set(False)
PatchClearBusy ==
    /\ patch_pc = "clear_busy"
    /\ busy' = FALSE
    /\ by_refresh' = [by_refresh EXCEPT !.running = FALSE]
    /\ patch_pc' = "wait"
    /\ UNCHANGED <<trigger, shutdown, lock, wait_result, gui_pc, gui_idx,
                   tk_vars, cli_vars, config, converter_arguments, conv_args,
                   conv_config, refresh, input_images, pred_set,
                   predicted_images, feed_set, feed_idx, patch_queue_in,
                   swapped, display_source, update_source,
                   display_destination, events, wrote, sets_since_clear,
                   sets_in_flight, runs_since_set, run_sets, run_flight,
                   shutdown_at, selection, ini, config_dicts, last_save,
                   retired, faces>>
    /\ UNCHANGED notPreview

\* ---- the display: FacesDisplay and ImagesCanvas ----

\* len(self.source), which is len(self._faces.matrix) after
\* _crop_source_faces: _load_frames builds one item per selected frame
SourceLen(set) == IF set = -1 THEN 0 ELSE sample_size

\* the list _crop_destination_faces iterates over: self.destination if it
\* is not empty, else one blank image in the shape of each source frame
DestinationImages ==
    IF display_destination # <<>> THEN display_destination
    ELSE [k \in 1..SourceLen(display_source) |-> Item(display_source, k)]

\* FacesDisplay._crop_destination_faces with the matrices of the frames of
\* the set matrix: image idx is transformed with self._faces.matrix[idx],
\* which raises IndexError when the list has no such entry
crop_destination_faces(matrix) ==
    LET destination == DestinationImages
        n == IF Len(destination) <= SourceLen(matrix) THEN Len(destination)
             ELSE SourceLen(matrix)
    IN  [matrix |-> matrix,
         dst    |-> [k \in 1..n |-> [image  |-> destination[k],
                                     matrix |-> Item(matrix, k)]],
         raised |-> IF Len(destination) > SourceLen(matrix)
                    THEN "IndexError" ELSE "none"]

\* FacesDisplay.update_tk_image: _faces_from_frames crops the source faces
\* when update_source is set (a new _Faces with the matrices of self.source,
\* update_source = False), then the destination faces; the refresh flag is
\* set False at the end
UpdateTkImage ==
    /\ faces' = crop_destination_faces(IF update_source THEN display_source
                                       ELSE faces.matrix)
    /\ update_source' = FALSE
    /\ refresh' = IF faces'.raised = "none" THEN FALSE ELSE refresh

\* ImagesCanvas._resize: the <Configure> event of the canvas reloads the
\* preview image
Resize ==
    /\ gui_pc = "idle"
    /\ events < MaxEvents
    /\ events' = events + 1
    /\ UpdateTkImage
    /\ UNCHANGED <<trigger, shutdown, lock, patch_pc, wait_result, gui_pc,
                   gui_idx, tk_vars, cli_vars, config, converter_arguments,
                   conv_args, conv_config, busy, input_images, pred_set,
                   predicted_images, feed_set, feed_idx, patch_queue_in,
                   swapped, display_source, display_destination, wrote,
                   sets_since_clear, sets_in_flight, runs_since_set, run_sets,
                   run_flight, shutdown_at, selection, ini, config_dicts,
                   last_save, retired, by_refresh>>
    /\ UNCHANGED notPreview

\* ImagesCanvas._refresh_display_callback: the trace on the refresh flag
\* reloads the preview image when the flag is set
RefreshDisplayCallback ==
    /\ gui_pc = "idle"
    /\ refresh
    /\ UpdateTkImage
    /\ UNCHANGED <<trigger, shutdown, lock, patch_pc, wait_result, gui_pc,
                   gui_idx, tk_vars, cli_vars, config, converter_arguments,
                   conv_args, conv_config, busy, input_images, pred_set,
                   predicted_images, feed_set, feed_idx, patch_queue_in,
                   swapped, display_source, display_destination, events,
                   wrote, sets_since_clear, sets_in_flight, runs_since_set,
                   run_sets, run_flight, shutdown_at, selection, ini,
                   config_dicts, last_save, retired, by_refresh>>
    /\ UNCHANGED notPreview

\* the parent sets the shutdown event of the patch thread
SetShutdown ==
    /\ ~shutdown
    /\ shutdown' = TRUE
    /\ shutdown_at' = patch_pc
    /\ UNCHANGED <<trigger, lock, patch_pc, wait_result, gui_pc, gui_idx,
                   tk_vars, cli_vars, config, converter_arguments, conv_args,
                   conv_config, busy, refresh, input_images, pred_set,
                   predicted_images, feed_set, feed_idx, patch_queue_in,
                   swapped, display_source, update_source,
                   display_destination, events, wrote, sets_since_clear,
                   sets_in_flight, runs_since_set, run_sets, run_flight,
                   selection, ini, config_dicts, last_save, retired,
                   by_refresh, faces>>
    /\ UNCHANGED notPreview

NextPreview ==
    \/ GuiOptionWrite \/ GuiCliWrite \/ RefreshSetBusy \/ UpdateConfigItem
    \/ RefreshAcquire \/ RefreshAssign \/ RefreshTrigger
    \/ LoadFrames \/ PredictAcquire \/ PredictItem \/ GenerateTrigger
    \/ PatchWait \/ PatchCheck \/ PatchClear \/ PatchFlush
    \/ FeedSwappedFaces \/ PatchAcquireConfig \/ PatchReinitialize
    \/ PatchFaces \/ PatchAcquireDisplay \/ PatchPublish
    \/ PatchSetRefresh \/ PatchClearBusy

\* Samples.__init__, to the end of its call of generate
NextSamples ==
    \/ LoadAlignments \/ CheckAlignments \/ GetFilelist \/ GetIndices
    \/ CreatePredictor
    \/ LoadFrames \/ PredictAcquire \/ PredictItem \/ GenerateTrigger

NextShutdown == NextPreview \/ SetShutdown

\* the preview tool with a predictor that may end a prediction early
NextPredictEOF == NextPreview \/ PredictEOF

\* the preview tool with the canvas that shows the preview image
NextDisplay == NextPreview \/ Resize \/ RefreshDisplayCallback

\* the steps of the patch thread, which runs whenever it can
PatchThread ==
    \/ PatchWait \/ PatchCheck \/ PatchClear \/ PatchFlush
    \/ FeedSwappedFaces \/ PatchAcquireConfig \/ PatchReinitialize
    \/ PatchFaces \/ PatchAcquireDisplay \/ PatchPublish
    \/ PatchSetRefresh \/ PatchClearBusy

\* the steps of a callback of the GUI thread once the callback has begun
GuiCallback ==
    \/ RefreshSetBusy \/ UpdateConfigItem \/ RefreshAcquire
    \/ RefreshAssign \/ RefreshTrigger
    \/ PredictAcquire \/ PredictItem \/ GenerateTrigger

\* the GUI thread with the configuration frame: options, refreshes and saves
NextConfig ==
    \/ GuiOptionWrite \/ RefreshSetBusy \/ UpdateConfigItem
    \/ RefreshAcquire \/ RefreshAssign \/ RefreshTrigger
    \/ SaveConfig

(***************************************************************************)
(* tools/effmpeg/cli.py: EffmpegArgs.__parse_transpose                     *)
(* A text is a sequence of characters.                                     *)
(***************************************************************************)
N90 == <<"9", "0">>

Counter == <<"C", "o", "u", "n", "t", "e", "r">>

Clockwise == <<"C", "l", "o", "c", "k", "w", "i", "s", "e">>

AndVerticalFlip ==
    <<"&", "V", "e", "r", "t", "i", "c", "a", "l", "F", "l", "i", "p">>

\* the long command names of the options 0 to 3
LongNames ==
    << N90 \o Counter \o Clockwise \o AndVerticalFlip,
       N90 \o Clockwise,
       N90 \o Counter \o Clockwise,
       N90 \o Clockwise \o AndVerticalFlip >>

\* opts: "(0, 90CounterClockwise&VerticalFlip)", "(1, 90Clockwise)", ...
opts ==
    [n \in 1..Len(LongNames) |->
        <<"(", DigitChars[n], ",", " ">> \o LongNames[n] \o <<")">>]

\* a in b, of two texts
IsSubstring(a, b) ==
    \E k \in 0..(Len(b) - Len(a)) : SubSeq(b, k + 1, k + Len(a)) = a

Prefixes(t) == {SubSeq(t, 1, k) : k \in 0..Len(t)}

\* the texts given on the command line: the numbers, the long names, the
\* choices as listed, what begins one of them, and a letter
TransposeValues ==
    UNION {Prefixes(LongNames[n]) \cup Prefixes(opts[n]) :
               n \in 1..Len(LongNames)}
        \cup {<<c>> : c \in Range(DigitChars) \cup {"x"}}

\* no text is being parsed
IdleTranspose ==
    /\ tr_value = <<>>
    /\ tr_index = 0
    /\ tr_i = 0
    /\ tr_result = <<>>
    /\ tr_pc = "idle"

\* index = 0; if len(value) == 1: index = int(value); else the loop begins
ParseLen ==
    /\ tr_pc = "len"
    /\ IF Len(tr_value) = 1
       THEN /\ IF IsDigit(tr_value[1])
               THEN /\ tr_index' = DigitVal(tr_value[1])
                    /\ tr_pc' = "return"
               ELSE /\ tr_pc' = "ValueError"
                    /\ UNCHANGED tr_index
            /\ UNCHANGED tr_i
       ELSE /\ tr_pc' = "for"
            /\ tr_i' = 0
            /\ UNCHANGED tr_index
    /\ UNCHANGED <<tr_value, tr_result>>
    /\ UNCHANGED notTranspose

\* one pass of `for i in range(5)`: opts[i] of a list of four raises
\* IndexError at i = 4, before the range is exhausted
ParseFor ==
    /\ tr_pc = "for"
    /\ IF tr_i >= Len(opts)
       THEN /\ tr_pc' = "IndexError"
            /\ UNCHANGED <<tr_index, tr_i>>
       ELSE IF IsSubstring(tr_value, opts[tr_i + 1])
            THEN /\ tr_index' = tr_i
                 /\ tr_pc' = "return"
                 /\ UNCHANGED tr_i
            ELSE /\ tr_i' = tr_i + 1
                 /\ UNCHANGED <<tr_index, tr_pc>>
    /\ UNCHANGED <<tr_value, tr_result>>
    /\ UNCHANGED notTranspose

\* return opts[index]
ParseReturn ==
    /\ tr_pc = "return"
    /\ IF tr_index < Len(opts)
       THEN /\ tr_result' = opts[tr_index + 1]
            /\ tr_pc' = "done"
       ELSE /\ tr_pc' = "IndexError"
            /\ UNCHANGED tr_result
    /\ UNCHANGED <<tr_value, tr_index, tr_i>>
    /\ UNCHANGED notTranspose

NextTranspose == ParseLen \/ ParseFor \/ ParseReturn

(***************************************************************************)
(* lib/model/loss/perceptual_loss_plaid.py: MSSIMLoss._get_smallest_size   *)
(* Python integers are unbounded; // is the floor division.                *)
(***************************************************************************)
\* mutant: the size is halved rounding up
halve_up(n) == (n + 1) \div 2

\* size // 2
halve(n) == n \div 2

\* no call is under way
IdleSmallest ==
    /\ ss_size0 = 0
    /\ ss_idx0 = 0
    /\ ss_size = 0
    /\ ss_idx = 0
    /\ ss_depth = 0
    /\ ss_halvings = 0
    /\ ss_retval = 0
    /\ ss_pc = "idle"

\* if idx > 0: the recursive call on (size // 2, idx - 1); else return size
SmallestCall ==
    /\ ss_pc = "call"
    /\ IF ss_idx > 0
       THEN /\ ss_size' = halve(ss_size)
            /\ ss_idx' = ss_idx - 1
            /\ ss_depth' = ss_depth + 1
            /\ ss_halvings' = ss_halvings + 1
            /\ UNCHANGED <<ss_retval, ss_pc>>
       ELSE /\ ss_retval' = ss_size
            /\ ss_pc' = "return"
            /\ UNCHANGED <<ss_size, ss_idx, ss_depth, ss_halvings>>
    /\ UNCHANGED <<ss_size0, ss_idx0>>
    /\ UNCHANGED notSmallest

\* size = <the value returned>; return size: one call returns to its caller
SmallestReturn ==
    /\ ss_pc = "return"
    /\ IF ss_depth > 0
       THEN /\ ss_depth' = ss_depth - 1
            /\ ss_idx' = ss_idx + 1
            /\ ss_size' = ss_retval
            /\ UNCHANGED ss_pc
       ELSE /\ ss_pc' = "done"
            /\ UNCHANGED <<ss_depth, ss_idx, ss_size>>
    /\ UNCHANGED <<ss_size0, ss_idx0, ss_halvings, ss_retval>>
    /\ UNCHANGED notSmallest

NextSmallest == SmallestCall \/ SmallestReturn

(***************************************************************************)
(* Specifications                                                          *)
(***************************************************************************)
\* a process whose devices change their free memory between queries
InitGpu ==
    /\ backend = "cpu"
    /\ env \in EnvValues(MaxEnvLenGpu)
    /\ hw_count \in 0..MaxDevices
    /\ InitCommonGpu
    /\ IdleSamples
    /\ IdlePreview
    /\ IdleTranspose
    /\ IdleSmallest

SpecGpu == InitGpu /\ [][NextGpu]_vars

\* a process under every value of the visibility variable
InitActive ==
    /\ backend \in {"cpu", "nvidia"}
    /\ env \in EnvValues(MaxEnvLen)
    /\ hw_count \in 0..MaxDevices
    /\ InitCommonGpu
    /\ IdleSamples
    /\ IdlePreview
    /\ IdleTranspose
    /\ IdleSmallest

SpecActive == InitActive /\ [][NextActive]_vars

\* Samples.__init__ on every size of file list
InitSamples ==
    /\ no_files \in 0..MaxFiles
    /\ sample_size \in 1..MaxSampleSize
    /\ file_version \in FileVersions
    /\ have_file \in BOOLEAN
    /\ InitSamplesVars
    /\ IdleGpu
    /\ UnbuiltPreview
    /\ IdleTranspose
    /\ IdleSmallest

SpecSamples == InitSamples /\ [][NextSamples]_vars

\* the preview tool after start up: every option is stored with the value 0,
\* as the text str(0) or as another text of that value
InitPreview ==
    /\ config \in [Options -> {t \in ConfigTexts : ConfigGet(t) = 0}]
    /\ IdleGpu
    /\ IdleSamples
    /\ InitPreviewVars
    /\ IdleTranspose
    /\ IdleSmallest

SpecPreview == InitPreview /\ [][NextPreview]_vars

\* the patch thread is scheduled: its wait(1) returns and its loop goes on
SpecPreviewFair ==
    InitPreview /\ [][NextPreview]_vars
    /\ WF_vars(PatchWait) /\ WF_vars(PatchCheck)

\* both threads are scheduled: the patch thread goes on and a callback of
\* the GUI that has begun runs to its end; the user need not act
SpecPreviewLive ==
    InitPreview /\ [][NextPreview]_vars
    /\ WF_vars(PatchThread) /\ WF_vars(GuiCallback)

\* scheduled threads and a predictor that may end a prediction early
SpecPredictEOF ==
    InitPreview /\ [][NextPredictEOF]_vars
    /\ WF_vars(PatchThread) /\ WF_vars(GuiCallback)

\* the preview tool after start up, before the first compile of the preview
\* image: FacesDisplay holds no matrices and no cropped faces
InitDisplay ==
    /\ IdleGpu
    /\ IdleSamples
    /\ IdlePreview
    /\ IdleTranspose
    /\ IdleSmallest

\* the preview tool and its canvas: the window may be resized whenever the
\* GUI thread is idle
SpecDisplay == InitDisplay /\ [][NextDisplay]_vars

\* the preview tool with a parent that may request the shutdown at any time
SpecShutdown == InitPreview /\ [][NextShutdown]_vars

\* the configuration frame of the preview tool on every stored configuration
InitConfig ==
    /\ config \in [Options -> ConfigTexts]
    /\ IdleGpu
    /\ IdleSamples
    /\ InitPreviewVars
    /\ IdleTranspose
    /\ IdleSmallest

SpecConfig == InitConfig /\ [][NextConfig]_vars

\* __parse_transpose called by argparse on the text of --transpose
InitTranspose ==
    /\ tr_value \in TransposeValues
    /\ tr_index = 0
    /\ tr_i = 0
    /\ tr_result = <<>>
    /\ tr_pc = "len"
    /\ IdleGpu
    /\ IdleSamples
    /\ IdlePreview
    /\ IdleSmallest

SpecTranspose == InitTranspose /\ [][NextTranspose]_vars

\* _get_ms_ssim calls _get_smallest_size(im_size, recursions - 1) for an
\* image of im_size pixels and recursions scales (power factors)
InitSmallest ==
    /\ ss_size0 \in 0..MaxImSize
    /\ ss_idx0 \in 0..(MaxScales - 1)
    /\ ss_size = ss_size0
    /\ ss_idx = ss_idx0
    /\ ss_depth = 0
    /\ ss_halvings = 0
    /\ ss_retval = 0
    /\ ss_pc = "call"
    /\ IdleGpu
    /\ IdleSamples
    /\ IdlePreview
    /\ IdleTranspose

SpecSmallest == InitSmallest /\ [][NextSmallest]_vars

(***************************************************************************)
(* Properties of lib/gpu_stats/_base.py                                    *)
(***************************************************************************)

\* C1: with an empty active-device list get_card_most_free returns card_id
\* -1 with free = total = 2048, whatever the device count.
C1_Theorem ==
    (last = "query" /\ stats.active_devices = <<>>)
        => /\ result.card_id = -1
           /\ result.free = 2048
           /\ result.total = 2048

\* devices are connected, every one of them is excluded or filtered out
C1_Witness ==
    /\ last = "query"
    /\ stats.active_devices = <<>>
    /\ stats.device_count > 0
    /\ result.card_id = -1

NoVisibilityList == ~env.isset \/ env.val = <<>>

Visible(i) == \E k \in 1..Len(SplitComma(env.val)) : IntOf(SplitComma(env.val)[k]) = i

ExpectedActive ==
    {i \in 0..(hw_count - 1) :
        i \notin Range(excl) /\ (NoVisibilityList \/ Visible(i))}

\* C2: the active list built at construction is exactly the indices of
\* 0..device_count-1 that are not excluded and are in the visibility list
\* (in ascending order); without a visibility list only the exclusion applies.
C2_Theorem ==
    last = "construct"
        => /\ Range(stats.active_devices) = ExpectedActive
           /\ \A j, k \in 1..Len(stats.active_devices) :
                  j < k => stats.active_devices[j] < stats.active_devices[k]

\* a visible device is excluded, another one stays active
C2_Witness ==
    /\ last = "construct"
    /\ ~NoVisibilityList
    /\ \E i \in 0..(hw_count - 1) : Visible(i) /\ i \in Range(excl)
    /\ stats.active_devices # <<>>

\* C3: with an active device, the card returned is an active device with the
\* greatest free memory among the active ones, the first such in active-index
\* order, and free, total and name are those of that device.
C3_Theorem ==
    (last = "query" /\ stats.active_devices # <<>>)
        => LET c == result.card_id
               act == Range(stats.active_devices)
           IN  /\ c \in act
               /\ result.free = stats.vram_free[c + 1]
               /\ \A j \in act : stats.vram_free[j + 1] <= result.free
               /\ \A j \in act : stats.vram_free[j + 1] = result.free => c <= j
               /\ result.total = stats.vram[c + 1]
               /\ result.device = stats.device_names[c + 1]

\* two active devices tie for the greatest free memory
C3_Witness ==
    /\ last = "query"
    /\ stats.active_devices = <<0, 1>>
    /\ stats.vram_free[1] = stats.vram_free[2]
    /\ stats.vram_free[1] > 0
    /\ result.card_id = 0

SoftFree(v) == IF v = QueryError THEN 0 ELSE v

\* C4 as stated: a call reports the current free memory of the card and
\* chooses the card by the current values.
C4_Original ==
    (last = "query" /\ result.card_id >= 0)
        => /\ result.free = SoftFree(hw_free[result.card_id])
           /\ \A j \in Range(stats.active_devices) :
                  SoftFree(hw_free[j]) <= result.free

\* C4 amended: the free memory is read once, when the stats object is
\* constructed; every later call on the object reports the values of that
\* time and chooses the card by them.
C4_Theorem ==
    (last = "query" /\ result.card_id >= 0)
        => /\ result.free = SoftFree(hw_at_init[result.card_id])
           /\ \A j \in Range(stats.active_devices) :
                  SoftFree(hw_at_init[j]) <= result.free

\* the free memory of the returned card changed after the construction
C4_Witness ==
    /\ last = "query"
    /\ result.card_id >= 0
    /\ hw_at_init[result.card_id] # QueryError
    /\ hw_free[result.card_id] # QueryError
    /\ hw_free[result.card_id] # hw_at_init[result.card_id]

\* C5 as stated: over all constructions that find no active device on a
\* backend other than cpu, the warning is logged exactly once in total.
C5_Original == nqual >= 1 => warnings = 1

\* C5 amended: every such construction with logging enabled logs the warning
\* once (one warning per construction, none with log=False), and every
\* construction completes.
C5_Theorem ==
    /\ warnings = nqual_log
    /\ last = "construct" => stats.built

\* two constructions without an active device, both logging
C5_Witness == nqual = 2 /\ warnings = 2 /\ last = "construct"

C7_Original == [][excl # <<>> => excl' = excl]_vars

\* C7 amended: the list only grows; set_exclude_devices appends to it and
\* no other operation changes it.
C7_Theorem ==
    [][/\ \E d \in SeqsUpTo(0..MaxDevices, MaxExclLen) : excl' = excl \o d
       /\ last' # "exclude" => excl' = excl]_vars

\* a stats object was built with device 0 active, a later call excluded it
C7_Witness ==
    /\ stats.built
    /\ hw_count = 2
    /\ stats.active_devices = <<0>>
    /\ excl = <<1, 0>>

\* C8: for n >= s >= 1 frames, _get_indices returns s pools, pairwise
\* disjoint, each a contiguous run of floor(n/s) indices, together covering
\* every index but floor(r/2) at the start and r - floor(r/2) at the end,
\* r = n mod s.
C8_Theorem ==
    (samples_pc = "predictor" /\ no_files >= sample_size)
        => LET width == no_files \div sample_size
               r == no_files % sample_size
               pools == indices.pools
           IN  /\ Len(pools) = sample_size
               /\ \A k \in 1..Len(pools) :
                      /\ Len(pools[k]) = width
                      /\ \A j \in 1..(width - 1) :
                             pools[k][j + 1] = pools[k][j] + 1
               /\ \A k, m \in 1..Len(pools) :
                      k # m => Range(pools[k]) \cap Range(pools[m]) = {}
               /\ UNION {Range(pools[k]) : k \in 1..Len(pools)} =
                      (r \div 2)..(no_files - 1 - (r - (r \div 2)))
               /\ r <= sample_size - 1

\* 23 frames in 5 pools of 4 indices covering 1..20
C8_Witness ==
    /\ samples_pc = "predictor"
    /\ no_files = 23
    /\ sample_size = 5
    /\ indices.pools = <<<<1, 2, 3, 4>>, <<5, 6, 7, 8>>, <<9, 10, 11, 12>>,
                         <<13, 14, 15, 16>>, <<17, 18, 19, 20>>>>

(***************************************************************************)
(* Properties of tools/preview/preview.py: Patch and Preview._refresh      *)
(***************************************************************************)
\* a patch run begins only after a trigger.set() that no earlier run has
\* consumed, and the sets made while a run is in flight stay pending
CoalescedRuns ==
    /\ runs_since_set <= 1
    /\ run_sets # 0
    /\ (sets_in_flight >= 1 => trigger)

\* the sets made while a run was in flight start a run once that run is over
FurtherRun == (sets_in_flight >= 1 /\ patch_pc = "wait") ~> (patch_pc = "clear")

\* C9: any number of trigger.set() calls made while a patch run is in flight,
\* after that run cleared the trigger, leave the trigger set once: when the
\* run is over exactly one further run begins, never one run per set, and no
\* run begins without a set that is newer than the last clear.
C9_Theorem == []CoalescedRuns /\ FurtherRun

\* two sets were made during one run, the one further run they caused is
\* over and the next wait(1) has timed out without a trigger
C9_Witness ==
    /\ run_flight = 2
    /\ runs_since_set = 1
    /\ patch_pc = "check"
    /\ ~wait_result
    /\ ~trigger

\* a write of the refresh under way that has not been made yet
PendingWrite ==
    \/ /\ gui_pc = "r_update"
       /\ \E o \in Options :
             /\ o >= gui_idx
             /\ update_config_item(config, o, tk_vars[o]) # config
    \/ convert_args(cli_vars) # converter_arguments

\* the refresh under way has made some of its writes and not the others
PartiallyApplied ==
    /\ gui_pc \in {"r_update", "r_lock"}
    /\ wrote
    /\ PendingWrite

\* C10: when the patch thread holds the lock and reads the configuration and
\* the converter arguments to reinitialise the converter, no GUI refresh has
\* made only a part of its writes.
C10_Original == patch_pc = "reinit" => ~PartiallyApplied

\* a started run moves from one statement of the run to the next one only
RunGoesOn ==
    \A k \in 1..(Len(RunOrder) - 1) :
        patch_pc = RunOrder[k] => patch_pc' \in {RunOrder[k], RunOrder[k + 1]}

\* the thread is closed by the check at the head of the loop only
ClosedByCheck == patch_pc' = "closed" => patch_pc \in {"check", "closed"}

\* a run that was under way when the shutdown was requested has published
\* its faces before the thread closed
RunCompleted ==
    (patch_pc = "closed" /\ shutdown_at \in Range(RunOrder) \ {"wait"})
        => /\ Len(swapped) = SampleSize
           /\ display_destination = swapped
           /\ refresh

\* C11: the shutdown event is examined between patch runs only: a run that
\* has cleared the trigger goes through feeding, reinitialising, patching and
\* publishing, statement by statement, and the thread closes only at the
\* check at the head of the loop, after the run in progress has published.
C11_Theorem == [][RunGoesOn /\ ClosedByCheck]_vars /\ []RunCompleted

\* the shutdown was requested while the faces were being patched; the run
\* published them and the thread closed afterwards
C11_Witness ==
    /\ patch_pc = "closed"
    /\ shutdown_at = "patch"
    /\ Len(swapped) = SampleSize
    /\ display_destination = swapped

\* the items 1..Len(q) of the predicted list of one sample set, in its order
ItemsOf(q, set) == \A k \in 1..Len(q) : q[k] = Item(set, k)

\* the queue while a run feeds it and after it has fed it: items of one
\* predicted list in their order, then the sentinel and nothing behind it
FedQueue ==
    /\ patch_pc = "feed" =>
          /\ Len(patch_queue_in) = feed_idx
          /\ ItemsOf(patch_queue_in, IF feed_idx = 0 THEN pred_set ELSE feed_set)
    /\ patch_pc \in {"lock1", "reinit", "patch"} =>
          /\ Len(patch_queue_in) >= 1
          /\ patch_queue_in[Len(patch_queue_in)] = EOF
          /\ \E set \in 0..input_images :
                ItemsOf(SubSeq(patch_queue_in, 1, Len(patch_queue_in) - 1), set)

\* the run begins to feed an empty queue
FlushedFirst ==
    (patch_pc = "flush" /\ patch_pc' = "feed") => patch_queue_in' = <<>>

\* the sentinel is put when every item of the list the loop iterates over has
\* been put
FedAll ==
    (patch_pc = "feed" /\ patch_pc' = "lock1") =>
        patch_queue_in' = (IF feed_idx = 0 THEN predicted_images ELSE FeedList)
                          \o <<EOF>>

\* C12: in every patch run the input queue of the converter is flushed, then
\* gets the items of the predicted list in their stored order and after them
\* "EOF", once: no item follows the sentinel and no second sentinel is put.
C12_Theorem == []FedQueue /\ [][FlushedFirst /\ FedAll]_vars

\* a run after "Update Samples" has fed the second sample set and the sentinel
C12_Witness ==
    /\ patch_pc = "lock1"
    /\ patch_queue_in = FullSet(1) \o <<EOF>>

(***************************************************************************)
(* Properties of tools/preview/preview.py: Samples                         *)
(***************************************************************************)
\* nothing of a sample set exists: no pools, no frames, no predictions
NothingBuilt ==
    /\ indices = NoIndices
    /\ input_images = -1
    /\ selection = <<>>
    /\ predicted_images = <<>>
    /\ display_source = -1
    /\ ~trigger

\* C13: when no frame has faces, Samples.__init__ ends in _get_filelist with
\* a FaceswapError that tells to check the frames source and the alignments
\* file; no index pool is computed, no predictor created, no sample made.
C13_Theorem ==
    (no_files = 0 /\ samples_pc \notin {"alignments", "check_alignments",
                                        "get_filelist", "FormatError", "exit"})
        => /\ samples_pc = "FaceswapError"
           /\ samples_err = Error("FaceswapError", NoFacesMsg)
           /\ NothingBuilt

\* a readable, current alignments file in which no frame has a face
C13_Witness ==
    /\ no_files = 0
    /\ file_version = "current"
    /\ samples_pc = "FaceswapError"

\* Samples.__init__ has used the records of the alignments file
RecordsUsed ==
    samples_pc \in {"get_indices", "predictor", "generate", "FaceswapError",
                    "ValueError"}

\* C14: the records of an alignments file older than the current schema are
\* used only after the file was migrated; a file that is not migrated (the
\* 1.0 format) ends the process with status 1 and a logged error before the
\* file list, the pools or a sample are built.
C14_Theorem ==
    /\ RecordsUsed =>
          \/ file_version = "current"
          \/ file_version = "older" /\ alignments.migrated
    /\ (file_version = "1.0" /\ samples_pc \notin {"alignments",
                                                    "check_alignments"})
          => /\ samples_pc = "exit"
             /\ samples_err = Error("SystemExit(1)", FormatUpdatedMsg)
             /\ NothingBuilt

\* a 1.0 file that exists and has frames with faces was rejected
C14_Witness ==
    /\ file_version = "1.0"
    /\ have_file
    /\ no_files > 0
    /\ samples_pc = "exit"

\* the frames of the sample set in ascending order, one of each pool
OneOfEachPool ==
    /\ Len(selection) = sample_size
    /\ Len(indices.pools) = sample_size
    /\ \A k \in 1..Len(selection) : selection[k] \in Range(indices.pools[k])
    /\ \A k \in 1..(Len(selection) - 1) : selection[k] < selection[k + 1]

\* C16: a generated sample set holds sample_size frames, one of each index
\* pool, distinct and in ascending order; generate makes it the source of
\* the display and flags the source as updated, and the patch trigger is
\* set only when the prediction of the set is complete.
C16_Theorem ==
    /\ input_images >= 0 =>
          /\ OneOfEachPool
          /\ display_source = input_images
          /\ update_source
    /\ trigger =>
          /\ gui_pc = "returned"
          /\ pred_set = input_images
          /\ predicted_images = FullSet(input_images)

\* 23 frames, 5 samples: one frame of each pool of four, trigger set
C16_Witness ==
    /\ no_files = 23
    /\ sample_size = 5
    /\ selection = <<4, 5, 12, 13, 20>>
    /\ trigger

\* C24 as stated: for every non-empty filtered file list, also one with
\* fewer frames than the sample size, _get_indices returns non-empty index
\* pools without raising and a sample set can be generated from them.
C24_Original ==
    (no_files > 0 /\ samples_pc \in {"predictor", "generate", "ValueError"})
        => /\ samples_pc # "ValueError"
           /\ indices.raised = "none"
           /\ indices.pools # <<>>
           /\ \A k \in 1..Len(indices.pools) : indices.pools[k] # <<>>

\* C21 as stated: every patch run that starts finishes; _patch_faces
\* returns, the destination of the display is set and busy is cleared, also
\* when the prediction ended early on "EOF" with fewer than sample_size
\* items.
C21_Original ==
    /\ (patch_pc = "clear") ~> (patch_pc = "wait")
    /\ [][patch_pc = "clear_busy" /\ patch_pc' = "wait" =>
              /\ display_destination = swapped
              /\ ~busy']_vars

\* C22 as stated: busy is True whenever a patch run requested by a refresh
\* is pending or in progress; it is never False while the trigger is still
\* set by a refresh that arrived during the run that just finished.
C22_Original == (by_refresh.pending \/ by_refresh.running) => busy

\* C23 as stated: whenever the preview image is compiled, each destination
\* image is cropped with the alignment matrix of the source frame from which
\* it was produced: no compile combines the matrices of a newly loaded
\* sample set with the patched images of the previous set, and none indexes
\* a matrix that does not exist.
C23_Original ==
    /\ faces.raised = "none"
    /\ \A k \in 1..Len(faces.dst) : faces.dst[k].image = faces.dst[k].matrix

(***************************************************************************)
(* Properties of tools/preview/preview.py: ConfigTools                     *)
(***************************************************************************)
\* a call of save_config that wrote the file
Saved == last_save'.n # last_save.n /\ ~last_save'.raised

\* save_config writes the values of the GUI for the sections it was given
SavedFromGui ==
    Saved => \A o \in Selected(last_save'.section) :
                 ini'[o] = Str(tk_vars[o])

\* C15 as stated: save_config(section=S) writes every option of the other
\* sections with the value that was saved before, also when its GUI value
\* was changed and applied by a refresh since; save_config(None) writes the
\* GUI values of all sections.
C15_Original ==
    [][/\ SavedFromGui
       /\ Saved => \A o \in Options \ Selected(last_save'.section) :
                       ConfigGet(ini'[o]) = ConfigGet(ini[o])]_vars

\* the feeding loop of the patch thread iterates over the list that
\* Samples._predict is filling under the lock
ReadsWhileRebuilt ==
    /\ patch_pc = "feed"
    /\ feed_idx > 0
    /\ feed_set = pred_set
    /\ gui_pc = "g_fill"

\* the items a patch run has fed to the converter, in front of its "EOF"
FedItems == UpToEOF(patch_queue_in)

\* C20 as stated: the patch thread never reads the predicted list while
\* _predict rebuilds it, and every patch run feeds the converter a complete
\* prediction set of exactly sample_size items.
C20_Original ==
    /\ ~ReadsWhileRebuilt
    /\ patch_pc \in {"lock1", "reinit", "patch"} =>
          /\ Len(FedItems) = sample_size
          /\ \E set \in 0..input_images : FedItems = FullSet(set)

\* the converter holds the arguments and the configuration of the last
\* refresh: a reinitialize would change nothing
LastRefreshApplied ==
    /\ conv_args = update_converter_arguments(conv_args, converter_arguments)
    /\ conv_config = [o \in Options |-> ConfigGet(config[o])]

\* no callback is under way, no trigger is pending and the patch thread is
\* between two runs, the last of which has published its output
Settled ==
    /\ gui_pc = "idle"
    /\ ~trigger
    /\ patch_pc \in {"wait", "check"}
    /\ Len(swapped) = sample_size
    /\ display_destination = swapped

\* C19 as stated: no configuration change is lost; once no further refresh
\* occurs a patch run completes whose converter arguments and configuration
\* are those of the last refresh.
C19_Original == <>[](Settled /\ LastRefreshApplied)

(***************************************************************************)
(* Properties of tools/effmpeg/cli.py                                      *)
(***************************************************************************)
\* __parse_transpose has ended, by a return or by an exception
Parsed == tr_pc \notin {"idle", "len", "for", "return"}

\* C17 as stated: the number of an option (0 to 3) and its long command
\* name both resolve to that option of the four listed choices.
C17_Original ==
    \A n \in 1..Len(opts) :
        (Parsed /\ tr_value \in {<<DigitChars[n]>>, LongNames[n]})
            => /\ tr_pc = "done"
               /\ tr_result = opts[n]

(***************************************************************************)
(* Properties of lib/model/loss/perceptual_loss_plaid.py                   *)
(***************************************************************************)
RECURSIVE Pow2(_)
Pow2(n) == IF n = 0 THEN 1 ELSE 2 * Pow2(n - 1)

\* an iterative loop of k integer halvings
RECURSIVE HalveLoop(_, _)
HalveLoop(n, k) == IF k = 0 THEN n ELSE HalveLoop(n \div 2, k - 1)

\* C25: _get_smallest_size(size, idx) ends for size >= 0 and idx >= 0 after
\* exactly idx halvings with floor(size / 2^idx), the value of a loop of idx
\* integer halvings; the recursion is never deeper than idx, which is the
\* number of scales minus one.
C25_Theorem ==
    /\ ss_depth <= ss_idx0
    /\ ss_idx0 <= MaxScales - 1
    /\ ss_pc \in {"call", "return"} => ss_idx + ss_depth = ss_idx0
    /\ ss_pc = "call" => ss_halvings = ss_depth
    /\ ss_pc = "return" => ss_halvings = ss_idx0
    /\ ss_pc = "done" =>
          /\ ss_retval = ss_size0 \div Pow2(ss_idx0)
          /\ ss_retval = HalveLoop(ss_size0, ss_idx0)
          /\ ss_halvings = ss_idx0
          /\ ss_depth = 0

\* an image of 37 pixels and five scales: 37, 18, 9, 4, 2
C25_Witness ==
    /\ ss_pc = "done"
    /\ ss_size0 = 37
    /\ ss_idx0 = 4
    /\ ss_retval = 2
    /\ ss_halvings = 4

====
